---- MODULE Spec2Model ----
(***************************************************************************)
(* Workflow execution engine of multi-agent: WorkflowExecutionEngine       *)
(* (lib/workflow/execution-engine.ts) and the module-level ProviderFactory *)
(* singleton (lib/llm/provider-factory.ts).                                *)
(*                                                                         *)
(* Texts are sequences of tokens.  A placeholder "{name}" is the token     *)
(* sequence <<"{">> \o name \o <<"}">>, a name being itself a sequence of   *)
(* tokens (<<"llm-1">>, <<"llm-1", "_edits">>).  An optional value is a    *)
(* sequence of length at most one: None is absent, Some(v) is present.     *)
(***************************************************************************)
EXTENDS Integers, Sequences, FiniteSets, TLC

VARIABLES
    providers,   \* providerFactory.providers: ProviderType -> LLMProvider instance
    maps,        \* heap of the Map objects allocated by `new Map()`: ref -> entries
    call         \* per executeWorkflow call: its arguments, locals and position

vars == <<providers, maps, call>>

None == << >>
Some(v) == <<v>>
IsSome(o) == Len(o) = 1
Val(o) == o[1]

----------------------------------------------------------------------------
(* Strings                                                                 *)

\* A value that is not a string (an object parsed from the vendor's JSON)
ObjectValue == <<"#object">>
IsString(v) == v # ObjectValue
\* String(value)
String(v) == IF IsString(v) THEN v ELSE <<"[object Object]">>

\* calling a string method on a value that has none
NotAFunction(expr) == <<expr, " is not a function">>

RECURSIVE Flatten(_)
Flatten(ss) == IF ss = << >> THEN << >> ELSE Head(ss) \o Flatten(Tail(ss))

IsPrefixAt(s, i, p) ==
    /\ i + Len(p) - 1 <= Len(s)
    /\ \A j \in 1..Len(p) : s[i + j - 1] = p[j]

\* String.prototype.replace(regex, replacement): the special patterns of a
\* replacement string, given the matched text and what precedes and follows it.
ExpandReplacement(value, matched, before, after) ==
    Flatten([i \in 1..Len(value) |->
        CASE value[i] = "$$" -> <<"$">>
          [] value[i] = "$&" -> matched
          [] value[i] = "$`" -> before
          [] value[i] = "$'" -> after
          [] OTHER -> <<value[i]>>])

\* new RegExp(`\\{${key}\\}`, 'g'): the key is pasted into the pattern as it
\* is, so the dot of a key stands for any one character
TokenMatches(piece, token) ==
    \/ piece = token
    \/ piece = "llm.1" /\ token = "llm-1"

\* the pattern built from `key` matches the text at position i
MatchesAt(s, i, key) ==
    /\ i + Len(key) + 1 <= Len(s)
    /\ s[i] = "{"
    /\ \A j \in 1..Len(key) : TokenMatches(key[j], s[i + j])
    /\ s[i + Len(key) + 1] = "}"

\* processed.replace(new RegExp(`\\{${key}\\}`, 'g'), String(value)): every
\* non-overlapping occurrence, left to right; inserted text is not rescanned
\* by the same call.
RECURSIVE ReplaceFrom(_, _, _, _)
ReplaceFrom(s, i, key, value) ==
    IF i > Len(s) THEN << >>
    ELSE IF MatchesAt(s, i, key)
         THEN ExpandReplacement(value, SubSeq(s, i, i + Len(key) + 1),
                                SubSeq(s, 1, i - 1),
                                SubSeq(s, i + Len(key) + 2, Len(s)))
              \o ReplaceFrom(s, i + Len(key) + 2, key, value)
         ELSE <<s[i]>> \o ReplaceFrom(s, i + 1, key, value)

ReplaceAll(s, key, value) == ReplaceFrom(s, 1, key, value)

\* One pass per variable, in the iteration order of Object.entries(variables).
RECURSIVE processPromptTemplate(_, _)
processPromptTemplate(template, variables) ==
    IF variables = << >> THEN template
    ELSE processPromptTemplate(
             ReplaceAll(template, Head(variables).k, String(Head(variables).v)),
             Tail(variables))

Whitespace == {" ", "\n"}

RECURSIVE TrimLeft(_)
TrimLeft(s) == IF s # << >> /\ Head(s) \in Whitespace THEN TrimLeft(Tail(s)) ELSE s

RECURSIVE TrimRight(_)
TrimRight(s) ==
    IF s # << >> /\ s[Len(s)] \in Whitespace
    THEN TrimRight(SubSeq(s, 1, Len(s) - 1)) ELSE s

Trim(s) == TrimRight(TrimLeft(s))

\* output.match(/<TAG>([\s\S]*?)<\/TAG>/): leftmost opening tag that has a
\* closing tag after it, up to the first such closing tag; group 1, or None.
MatchTag(output, open, close) ==
    LET starts == {i \in 1..Len(output) :
                      /\ output[i] = open
                      /\ \E j \in (i + 1)..Len(output) : output[j] = close}
    IN IF starts = {} THEN None
       ELSE LET i == CHOOSE x \in starts : \A y \in starts : x <= y
                j == CHOOSE x \in (i + 1)..Len(output) :
                        /\ output[x] = close
                        /\ \A y \in (i + 1)..Len(output) : output[y] = close => x <= y
            IN Some(SubSeq(output, i + 1, j - 1))

----------------------------------------------------------------------------
(* Map and plain-object semantics: set() on an existing key keeps its      *)
(* position in the iteration order                                         *)

HasKey(m, k) == \E i \in 1..Len(m) : m[i].k = k

MapSet(m, k, v) ==
    IF HasKey(m, k)
    THEN [i \in 1..Len(m) |-> IF m[i].k = k THEN [k |-> k, v |-> v] ELSE m[i]]
    ELSE Append(m, [k |-> k, v |-> v])

MapGet(m, k) == m[CHOOSE i \in 1..Len(m) : m[i].k = k].v

\* Array.prototype.filter is SelectSeq; Array.prototype.find is its first
\* element, if any
First(hits) == IF hits = << >> THEN None ELSE Some(Head(hits))

\* a lookup that settles for the last node of the list when the id is not
\* in it
FindByIdOrLast(nodes, id) ==
    IF \E i \in 1..Len(nodes) : nodes[i].id = id
    THEN First(SelectSeq(nodes, LAMBDA node : node.id = id))
    ELSE IF nodes = << >> THEN None ELSE Some(nodes[Len(nodes)])

\* nodes.find(node => node.id === id)
FindById(nodes, id) == First(SelectSeq(nodes, LAMBDA node : node.id = id))

\* a lookup that settles for the first node of the list, whatever its kind
FirstNode(nodes, type) == First(nodes)

\* nodes.find(node => node.type === type)
FindByType(nodes, type) == First(SelectSeq(nodes, LAMBDA node : node.type = type))

\* a || b on strings and optional strings: undefined and "" are falsy
Truthy(o) == IsSome(o) /\ Val(o) # << >>
OrElse(o, d) == IF Truthy(o) THEN Val(o) ELSE d

----------------------------------------------------------------------------
(* ProviderFactory (module-level singleton `providerFactory`)              *)

NotRegistered(type) ==
    <<"Provider ", type, " not registered. Please configure API key first.">>

\* a registry that keeps the instance it already has for a type
registerIfAbsent(reg, type, config) ==
    IF type \in {"openai", "anthropic"}
    THEN [ok |-> TRUE,
          reg |-> [t \in DOMAIN reg \cup {type} |->
                     IF t \in DOMAIN reg THEN reg[t]
                     ELSE [id |-> type, apiKey |-> config.apiKey]]]
    ELSE [ok |-> FALSE, error |-> <<"Unsupported provider type: ", type>>]

\* registerProvider(type, config): the new registry, or the Error thrown
registerProvider(reg, type, config) ==
    CASE type = "openai" ->
           [ok |-> TRUE,
            reg |-> [t \in DOMAIN reg \cup {type} |->
                       IF t = type THEN [id |-> "openai", apiKey |-> config.apiKey]
                       ELSE reg[t]]]
      [] type = "anthropic" ->
           [ok |-> TRUE,
            reg |-> [t \in DOMAIN reg \cup {type} |->
                       IF t = type THEN [id |-> "anthropic", apiKey |-> config.apiKey]
                       ELSE reg[t]]]
      [] type = "google" ->
           [ok |-> FALSE, error |-> <<"Google Gemini provider not yet implemented">>]
      [] type = "deepseek" ->
           [ok |-> FALSE, error |-> <<"DeepSeek provider not yet implemented">>]
      [] OTHER ->
           [ok |-> FALSE, error |-> <<"Unsupported provider type: ", type>>]

\* getProvider(type): the registered instance, or the Error thrown
getProvider(reg, type) ==
    IF type \in DOMAIN reg
    THEN [ok |-> TRUE, provider |-> reg[type]]
    ELSE [ok |-> FALSE, error |-> NotRegistered(type)]

\* a registration loop that passes over the types registerProvider refuses
RECURSIVE RegisterSupported(_, _)
RegisterSupported(reg, configs) ==
    IF configs = << >> THEN [ok |-> TRUE, reg |-> reg]
    ELSE LET r == registerProvider(reg, Head(configs).type, Head(configs).config)
         IN RegisterSupported(IF r.ok THEN r.reg ELSE reg, Tail(configs))

\* for (const [providerType, config] of Object.entries(providerConfigs))
\*     providerFactory.registerProvider(providerType, config)
RECURSIVE RegisterAll(_, _)
RegisterAll(reg, configs) ==
    IF configs = << >> THEN [ok |-> TRUE, reg |-> reg]
    ELSE LET r == registerProvider(reg, Head(configs).type, Head(configs).config)
         IN IF r.ok THEN RegisterAll(r.reg, Tail(configs))
            ELSE [ok |-> FALSE, reg |-> reg, error |-> r.error]

\* Provider.execute failures: the vendor prefix wraps the upstream message
VendorName(id) == IF id = "openai" THEN "OpenAI" ELSE "Anthropic"
ExecuteError(id, upstream) ==
    <<VendorName(id), " execution failed: ", VendorName(id), " API error: ", upstream>>

----------------------------------------------------------------------------
(* Template Variable Set                                                   *)

\* buildTemplateVariables(input, context), as the ordered entries of the
\* `variables` object
RECURSIVE AddContextEntries(_, _)
AddContextEntries(variables, entries) ==
    IF entries = << >> THEN variables
    ELSE LET e == Head(entries)
             v1 == MapSet(variables, <<e.k>>, e.v)
             editsMatch == IF IsString(e.v)
                           THEN MatchTag(e.v, "<B_Edits>", "</B_Edits>")
                           ELSE None
             v2 == IF IsSome(editsMatch)
                   THEN MapSet(v1, <<e.k, "_edits">>, Trim(Val(editsMatch)))
                   ELSE v1
             reasoningMatch == IF IsString(e.v)
                               THEN MatchTag(e.v, "<B_Reasoning>", "</B_Reasoning>")
                               ELSE None
             v3 == IF IsSome(reasoningMatch)
                   THEN MapSet(v2, <<e.k, "_reasoning">>, Trim(Val(reasoningMatch)))
                   ELSE v2
         IN AddContextEntries(v3, Tail(entries))

buildTemplateVariables(input, context) ==
    AddContextEntries(<<[k |-> <<"input">>, v |-> input]>>, context)

----------------------------------------------------------------------------
(* WorkflowExecutionEngine: the walk                                       *)

MaxStack == 6   \* frames of synchronous recursion before a RangeError

DefaultPrompt == <<"{", "input", "}">>

\* executeLLMNode up to its first suspension: the step as created, then either
\* the failure caught before any provider call, or the provider call to make
BeginLLMNode(reg, node, input, context) ==
    LET step == [nodeId |-> node.id,
                 provider |-> IF node.provider = "undefined" THEN "openai"
                              ELSE node.provider,
                 input |-> input, output |-> None, cost |-> 0,
                 status |-> "running", error |-> None]
        got == getProvider(reg, node.provider)
    IN IF ~got.ok
       THEN [kind |-> "step",
             step |-> [step EXCEPT !.status = "failed", !.error = Some(got.error)]]
       ELSE LET templateVariables == buildTemplateVariables(input, context)
                processedPrompt ==
                    processPromptTemplate(OrElse(node.prompt, DefaultPrompt),
                                          templateVariables)
            IN [kind |-> "call",
                step |-> [step EXCEPT !.input = processedPrompt],
                provider |-> got.provider,
                prompt |-> processedPrompt,
                variables |-> templateVariables]

\* executeLLMNode once provider.execute has settled; the preview logged after
\* the step is marked completed throws, inside the try, on a non-string content
FinishLLMNode(step, response) ==
    IF response.ok
    THEN LET done == [step EXCEPT !.output = Some(response.content),
                                  !.cost = response.cost,
                                  !.status = "completed"]
         IN IF IsString(response.content) THEN done
            ELSE [done EXCEPT !.status = "failed",
                              !.error = Some(NotAFunction("response.content?.substring"))]
    ELSE [step EXCEPT !.status = "failed", !.error = Some(response.error)]

\* executeFromNode after `await this.executeLLMNode(...)`: the running text
AfterStepOutput(step, currentOutput) == OrElse(step.output, currentOutput)

\* entries stored under the kind of the node instead of its id
ContextKeyByType(node) == node.type

\* context.set(currentNode.id, currentOutput): the key an entry is stored under
ContextKey(node) == node.id

\* following the last outgoing edge instead of the first
LastEdge(outgoingEdges) == outgoingEdges[Len(outgoingEdges)]

\* const nextEdge = outgoingEdges[0]
NextEdge(outgoingEdges) == outgoingEdges[1]

\* a walk that treats no node as the output node
NeverOutputNode(nextNode) == FALSE

\* nextNode.type === 'output'
IsOutputNode(nextNode) == nextNode.type = "output"

\* a frame that forgets to add the cost of its own step
DropStepCost(totalCost, step) == totalCost

\* totalCost += step.cost
AddStepCost(totalCost, step) == totalCost + step.cost

\* `costs` holds the local totalCost of every executeFromNode frame that has
\* been entered, outermost first; `steps` the steps pushed so far, in order.
RECURSIVE EnterNode(_, _, _, _, _, _, _, _)
RECURSIVE AfterNode(_, _, _, _, _, _, _, _)

\* a walk that runs every node it enters as an LLM node
AnyNodeIsLLM(node) == TRUE

\* `if (currentNode.type === 'llm')`
IsLLMNode(node) == node.type = "llm"

\* executeFromNode from its entry to the LLM node's suspension (or through a
\* node that is not an llm node)
EnterNode(reg, workflow, currentNode, input, context, steps, costs, fuel) ==
    IF fuel = 0
    THEN [kind |-> "throw", context |-> context, steps |-> steps, costs |-> costs,
          error |-> <<"Maximum call stack size exceeded">>]
    ELSE LET ctx1 == MapSet(context, ContextKey(currentNode), input)
             costs1 == Append(costs, 0)
         IN IF IsLLMNode(currentNode)
            THEN [begin |-> BeginLLMNode(reg, currentNode, input, ctx1),
                  kind |-> BeginLLMNode(reg, currentNode, input, ctx1).kind,
                  context |-> ctx1, node |-> currentNode, input |-> input,
                  steps |-> steps, costs |-> costs1, fuel |-> fuel]
            ELSE AfterNode(reg, workflow, currentNode, input, ctx1, steps,
                           costs1, fuel)

\* executeFromNode from "Find next nodes" on
AfterNode(reg, workflow, currentNode, currentOutput, context, steps, costs, fuel) ==
    LET outgoingEdges ==
            SelectSeq(workflow.edges, LAMBDA edge : edge.source = currentNode.id)
    IN IF outgoingEdges = << >>
       THEN [kind |-> "return", context |-> context,
             output |-> currentOutput, steps |-> steps, costs |-> costs]
       ELSE LET nextEdge == NextEdge(outgoingEdges)
                nextNode == FindById(workflow.nodes, nextEdge.target)
            IN IF ~IsSome(nextNode)
               THEN [kind |-> "throw", context |-> context, steps |-> steps,
                     costs |-> costs,
                     error |-> <<"Next node ", nextEdge.target, " not found">>]
               ELSE IF IsOutputNode(Val(nextNode))
               THEN IF IsString(currentOutput)
                    THEN [kind |-> "return", context |-> context,
                          output |-> currentOutput, steps |-> steps,
                          costs |-> costs]
                    ELSE [kind |-> "throw", context |-> context, steps |-> steps,
                          costs |-> costs,
                          error |-> NotAFunction("currentOutput?.substring")]
               ELSE EnterNode(reg, workflow, Val(nextNode), currentOutput,
                              context, steps, costs, fuel - 1)

\* totalCost as the frames add it up on the way back: the innermost frame
\* returns its own totalCost, every other one `totalCost + result.totalCost`
RECURSIVE WalkCost(_)
WalkCost(costs) ==
    IF costs = << >> THEN 0 ELSE Head(costs) + WalkCost(Tail(costs))

----------------------------------------------------------------------------
(* executeWorkflow                                                         *)

Calls == {"A", "B"}

\* one module-level Map used by every call
SharedMap(c) == "A"

\* `new Map()` at the call site of executeFromNode: a fresh object per call
NewMap(c) == c

NewExecution ==
    [status |-> "running", error |-> None, outputResult |-> None,
     totalCost |-> 0, hasExecutionTime |-> FALSE, nodeDebug |-> None]

IdleCall ==
    [pc |-> "idle", workflow |-> None, inputPrompt |-> << >>,
     providerConfigs |-> << >>, context |-> None, node |-> None,
     input |-> << >>, step |-> None, provider |-> None, steps |-> << >>,
     result |-> None, execution |-> NewExecution,
     templateVariables |-> None, sent |-> << >>, startedAfter |-> {},
     costs |-> << >>, settled |-> << >>, validation |-> None,
     registrations |-> << >>, lookup |-> None,
     given |-> None, invoked |-> FALSE, previousValidation |-> None,
     response |-> None]

\* an engine that blanks the prompt of every node it has gone through
PromptsCleared(workflow) ==
    [workflow EXCEPT !.nodes = [i \in DOMAIN @ |-> [@[i] EXCEPT !.prompt = None]]]

\* the caller's workflow object as executeWorkflow leaves it: nodes and
\* edges are read with find and filter, node.data.config is copied with a
\* spread, and nothing is assigned to the object
WorkflowAfterExecute(workflow) == workflow

\* a catch block that records the message but leaves the status as it was
CatchHandlerKeepsStatus(execution, error) ==
    [execution EXCEPT !.error = Some(error)]

\* catch (error) { ... } of executeWorkflow
CatchHandler(execution, error) ==
    [execution EXCEPT !.status = "failed", !.error = Some(error)]

\* What a synchronous stretch of the walk leaves behind in the call
Settle(base, out) ==
    CASE out.kind = "call" ->
           [base EXCEPT !.pc = "awaitProvider",
                        !.node = Some(out.node), !.input = out.input,
                        !.step = Some(out.begin.step),
                        !.provider = Some(out.begin.provider),
                        !.steps = out.steps, !.costs = out.costs,
                        !.templateVariables = Some(out.begin.variables),
                        !.sent = Append(@, [nodeId |-> out.node.id,
                                            provider |-> out.begin.provider,
                                            prompt |-> out.begin.prompt,
                                            variables |-> out.begin.variables])]
      [] out.kind = "step" ->
           [base EXCEPT !.pc = "awaitStep",
                        !.node = Some(out.node), !.input = out.input,
                        !.step = Some(out.begin.step),
                        !.provider = None,
                        !.steps = out.steps, !.costs = out.costs]
      [] out.kind = "return" ->
           [base EXCEPT !.pc = "walkReturned",
                        !.node = None, !.step = None, !.provider = None,
                        !.steps = out.steps, !.costs = out.costs,
                        !.result = Some([output |-> out.output,
                                         totalCost |-> WalkCost(out.costs),
                                         steps |-> out.steps])]
      [] out.kind = "throw" ->
           [base EXCEPT !.pc = "returned",
                        !.node = None, !.step = None, !.provider = None,
                        !.steps = out.steps, !.costs = out.costs,
                        !.execution = CatchHandler(@, out.error)]

Init ==
    /\ providers = [t \in {} |-> None]
    /\ maps = [c \in Calls |-> << >>]
    /\ call = [c \in Calls |-> IdleCall]

\* executeWorkflow(workflow, inputPrompt, userId, providerConfigs) up to its
\* first suspension
Start(c, workflow, inputPrompt, providerConfigs) ==
    /\ call[c].pc = "idle"
    /\ LET base == [IdleCall EXCEPT
                        !.workflow = Some(WorkflowAfterExecute(workflow)),
                        !.given = Some(workflow),
                        !.invoked = TRUE,
                        !.inputPrompt = inputPrompt,
                        !.providerConfigs = providerConfigs,
                        !.startedAfter = {d \in Calls : call[d].pc = "returned"}]
           registered == RegisterAll(providers, providerConfigs)
           inputNode == FindByType(workflow.nodes, "input")
       IN /\ providers' = registered.reg
          /\ IF ~registered.ok
             THEN /\ call' = [call EXCEPT ![c] =
                        Settle(base, [kind |-> "throw", steps |-> << >>,
                                      costs |-> << >>,
                                      error |-> registered.error])]
                  /\ UNCHANGED maps
             ELSE IF ~IsSome(inputNode)
             THEN /\ call' = [call EXCEPT ![c] =
                        Settle(base, [kind |-> "throw", steps |-> << >>,
                                      costs |-> << >>,
                                      error |-> <<"Workflow must have an input node">>])]
                  /\ UNCHANGED maps
             ELSE LET ref == NewMap(c)
                      out == EnterNode(registered.reg, workflow, Val(inputNode),
                                       inputPrompt, << >>, << >>, << >>, MaxStack)
                  IN /\ call' = [call EXCEPT ![c] =
                            Settle([base EXCEPT !.context = Some(ref)], out)]
                     /\ maps' = [maps EXCEPT ![ref] = out.context]

\* provider.execute(processedPrompt, config) settles: a response or a failure
ProviderResponds(c, response) ==
    /\ call[c].pc = "awaitProvider"
    /\ call' = [call EXCEPT ![c].pc = "awaitStep",
                            ![c].step = Some(FinishLLMNode(Val(@), response)),
                            ![c].provider = None,
                            ![c].settled = Append(@, [nodeId |-> Val(call[c].node).id,
                                                      response |-> response])]
    /\ UNCHANGED <<providers, maps>>

\* executeFromNode resumes after `await this.executeLLMNode(...)`
ResumeAfterStep(c) ==
    /\ call[c].pc = "awaitStep"
    /\ LET me == call[c]
           ref == Val(me.context)
           step == Val(me.step)
           currentNode == Val(me.node)
           currentOutput == AfterStepOutput(step, me.input)
           ctx1 == MapSet(maps[ref], ContextKey(currentNode), currentOutput)
           costs1 == [me.costs EXCEPT ![Len(me.costs)] = AddStepCost(@, step)]
           out == AfterNode(providers, Val(me.workflow), currentNode,
                            currentOutput, ctx1, Append(me.steps, step), costs1,
                            MaxStack)
       IN /\ call' = [call EXCEPT ![c] = Settle(me, out)]
          /\ maps' = [maps EXCEPT ![ref] = out.context]
          /\ UNCHANGED providers

\* execution.outputResult = result.output ... execution.status = 'completed'
Complete(c) ==
    /\ call[c].pc = "walkReturned"
    /\ LET result == Val(call[c].result)
       IN call' = [call EXCEPT ![c].pc = "collectDebug",
                               ![c].execution =
                                   [@ EXCEPT !.outputResult = Some(result.output),
                                             !.totalCost = result.totalCost,
                                             !.hasExecutionTime = TRUE,
                                             !.status = "completed"]]
    /\ UNCHANGED <<providers, maps>>

\* one nodeDebug entry of a step
DebugEntry(workflow, step) ==
    LET node == FindById(workflow.nodes, step.nodeId)
        editsMatch == IF Truthy(step.output)
                      THEN MatchTag(Val(step.output), "<B_Edits>", "</B_Edits>")
                      ELSE None
        reasoningMatch == IF Truthy(step.output)
                          THEN MatchTag(Val(step.output), "<B_Reasoning>",
                                        "</B_Reasoning>")
                          ELSE None
    IN [id |-> step.nodeId,
        label |-> IF IsSome(node) THEN OrElse(Val(node).label, <<step.nodeId>>)
                  ELSE <<step.nodeId>>,
        prompt |-> step.input,
        output |-> OrElse(step.output, << >>),
        recommendations |-> IF IsSome(editsMatch) THEN Some(Trim(Val(editsMatch)))
                            ELSE None,
        reasoning |-> IF IsSome(reasoningMatch) THEN Some(Trim(Val(reasoningMatch)))
                      ELSE None]

\* the output preview, the nodeDebug loop, then `return execution`; a
\* non-string output throws into the catch block
CollectNodeDebug(c) ==
    /\ call[c].pc = "collectDebug"
    /\ LET result == Val(call[c].result)
           workflow == Val(call[c].workflow)
           badSteps == {i \in 1..Len(result.steps) :
                           /\ Truthy(result.steps[i].output)
                           /\ ~IsString(Val(result.steps[i].output))}
       IN call' = [call EXCEPT
               ![c].pc = "returned",
               ![c].execution =
                   IF ~IsString(result.output)
                   THEN CatchHandler(@, NotAFunction("result.output?.substring"))
                   ELSE IF badSteps # {}
                   THEN CatchHandler(@, NotAFunction("step.output.match"))
                   ELSE [@ EXCEPT !.nodeDebug =
                            Some([i \in 1..Len(result.steps) |->
                                     DebugEntry(workflow, result.steps[i])])]]
    /\ UNCHANGED <<providers, maps>>

----------------------------------------------------------------------------
(* validateWorkflow                                                        *)

\* a depth-first search that never takes a node off the recursion stack
StackKeep(recursionStack, nodeId) == recursionStack

\* recursionStack.delete(nodeId)
StackDelete(recursionStack, nodeId) == recursionStack \ {nodeId}

RECURSIVE hasCycleUtil(_, _, _)
RECURSIVE CycleThroughEdges(_, _, _)

\* hasCycleUtil(nodeId), with the two sets it closes over passed along:
\* st = [visited, recursionStack]; the result adds the boolean returned
hasCycleUtil(edges, nodeId, st) ==
    IF nodeId \in st.recursionStack
    THEN [found |-> TRUE, visited |-> st.visited, recursionStack |-> st.recursionStack]
    ELSE IF nodeId \in st.visited
    THEN [found |-> FALSE, visited |-> st.visited, recursionStack |-> st.recursionStack]
    ELSE LET outgoingEdges == SelectSeq(edges, LAMBDA edge : edge.source = nodeId)
             r == CycleThroughEdges(edges, outgoingEdges,
                      [visited |-> st.visited \cup {nodeId},
                       recursionStack |-> st.recursionStack \cup {nodeId}])
         IN IF r.found THEN r
            ELSE [found |-> FALSE, visited |-> r.visited,
                  recursionStack |-> StackDelete(r.recursionStack, nodeId)]

\* for (const edge of outgoingEdges) if (hasCycleUtil(edge.target)) return true
CycleThroughEdges(edges, outgoingEdges, st) ==
    IF outgoingEdges = << >>
    THEN [found |-> FALSE, visited |-> st.visited, recursionStack |-> st.recursionStack]
    ELSE LET r == hasCycleUtil(edges, Head(outgoingEdges).target, st)
         IN IF r.found THEN r
            ELSE CycleThroughEdges(edges, Tail(outgoingEdges), r)

\* for (const node of nodes) if (hasCycleUtil(node.id)) return true
RECURSIVE CycleFromNodes(_, _, _)
CycleFromNodes(nodes, edges, st) ==
    IF nodes = << >> THEN FALSE
    ELSE LET r == hasCycleUtil(edges, Head(nodes).id, st)
         IN IF r.found THEN TRUE ELSE CycleFromNodes(Tail(nodes), edges, r)

hasCycles(nodes, edges) ==
    CycleFromNodes(nodes, edges, [visited |-> {}, recursionStack |-> {}])

\* ids.join(', ')
RECURSIVE Join(_)
Join(ids) ==
    IF ids = << >> THEN << >>
    ELSE IF Len(ids) = 1 THEN <<ids[1]>>
    ELSE <<ids[1], ", ">> \o Join(Tail(ids))

\* an input check that never complains
NoInputErrors(inputNodes) == << >>

\* "Check for input node"
InputErrors(inputNodes) ==
    IF Len(inputNodes) = 0 THEN <<<<"Workflow must have at least one input node">>>>
    ELSE IF Len(inputNodes) > 1 THEN <<<<"Workflow can only have one input node">>>>
    ELSE << >>

\* "Check for output node"
OutputErrors(outputNodes) ==
    IF Len(outputNodes) = 0 THEN <<<<"Workflow must have at least one output node">>>>
    ELSE << >>

\* "Check for disconnected nodes"
\* a check that counts a node as connected only when an edge leaves it
DisconnectedBySource(workflow) ==
    LET connectedNodes == {workflow.edges[i].source : i \in 1..Len(workflow.edges)}
        disconnectedNodes ==
            SelectSeq(workflow.nodes,
                LAMBDA node : node.id \notin connectedNodes /\ Len(workflow.nodes) > 1)
    IN IF Len(disconnectedNodes) > 0
       THEN << <<"Disconnected nodes found: ">>
               \o Join([i \in 1..Len(disconnectedNodes) |-> disconnectedNodes[i].id]) >>
       ELSE << >>

DisconnectedErrors(workflow) ==
    LET connectedNodes ==
            {workflow.edges[i].source : i \in 1..Len(workflow.edges)}
            \cup {workflow.edges[i].target : i \in 1..Len(workflow.edges)}
        disconnectedNodes ==
            SelectSeq(workflow.nodes,
                LAMBDA node : node.id \notin connectedNodes /\ Len(workflow.nodes) > 1)
    IN IF Len(disconnectedNodes) > 0
       THEN << <<"Disconnected nodes found: ">>
               \o Join([i \in 1..Len(disconnectedNodes) |-> disconnectedNodes[i].id]) >>
       ELSE << >>

\* a validation without the cycle check
NoCycleErrors(workflow) == << >>

\* "Check for cycles (basic check)"
CycleErrors(workflow) ==
    IF hasCycles(workflow.nodes, workflow.edges)
    THEN <<<<"Workflow contains cycles">>>>
    ELSE << >>

validateWorkflow(workflow) ==
    LET errors ==
            InputErrors(SelectSeq(workflow.nodes, LAMBDA node : node.type = "input"))
            \o OutputErrors(SelectSeq(workflow.nodes, LAMBDA node : node.type = "output"))
            \o DisconnectedErrors(workflow)
            \o CycleErrors(workflow)
    IN [isValid |-> Len(errors) = 0, errors |-> errors]

\* a validation that uses up the edge list of the object it is given
WithoutEdges(workflow) == [workflow EXCEPT !.edges = << >>]

\* the caller's workflow object as validateWorkflow leaves it: the checks
\* read nodes and edges with filter, forEach and map and write to their own
\* errors list and Sets only
WorkflowAfterValidate(workflow) == workflow

\* workflowEngine.validateWorkflow(workflow), called on its own
Validate(c, workflow) ==
    /\ call[c].pc = "idle"
    /\ call' = [call EXCEPT ![c] =
           [IdleCall EXCEPT !.pc = "validated",
                            !.workflow = Some(WorkflowAfterValidate(workflow)),
                            !.given = Some(workflow),
                            !.validation = Some(validateWorkflow(workflow))]]
    /\ UNCHANGED <<providers, maps>>

\* a second validateWorkflow call on the object the first one was given
Revalidate(c) ==
    /\ call[c].pc = "validated"
    /\ ~IsSome(call[c].previousValidation)
    /\ LET workflow == Val(call[c].workflow)
       IN call' = [call EXCEPT ![c] =
              [@ EXCEPT !.workflow = Some(WorkflowAfterValidate(workflow)),
                        !.previousValidation = call[c].validation,
                        !.validation = Some(validateWorkflow(workflow))]]
    /\ UNCHANGED <<providers, maps>>

----------------------------------------------------------------------------
(* Callers, workflows and provider behaviour the engine is run against     *)

MaxCost == 1    \* response.cost ranges over 0..MaxCost

Ph(name) == <<"{">> \o name \o <<"}">>

Node(id, type, provider, prompt, label) ==
    [id |-> id, type |-> type, provider |-> provider, prompt |-> prompt,
     label |-> label]
Edge(source, target) == [source |-> source, target |-> target]

InputNode == Node("input-1", "input", "undefined", Some(<<"authored">>), Some(<<"Input">>))
OutputNode == Node("output-1", "output", "undefined", None, Some(<<"Output">>))
LLM(id, provider, prompt) == Node(id, "llm", provider, prompt, None)

\* input -> llm-1 -> llm-2 -> output
Chain(p1, t1, p2, t2) ==
    [id |-> "wf-chain",
     nodes |-> <<InputNode, LLM("llm-1", p1, t1), LLM("llm-2", p2, t2), OutputNode>>,
     edges |-> <<Edge("input-1", "llm-1"), Edge("llm-1", "llm-2"),
                 Edge("llm-2", "output-1")>>]

\* no node of kind input
NoInput ==
    [id |-> "wf-noinput",
     nodes |-> <<LLM("llm-1", "openai", None), OutputNode>>,
     edges |-> <<Edge("llm-1", "output-1")>>]

\* the edge out of llm-1 targets a node that is not in the node list
Dangling ==
    [id |-> "wf-dangling",
     nodes |-> <<InputNode, LLM("llm-1", "openai", None), OutputNode>>,
     edges |-> <<Edge("input-1", "llm-1"), Edge("llm-1", "ghost")>>]

\* the edge out of the second llm node targets a node that is not in the
\* node list
DanglingLate ==
    [id |-> "wf-dangling-late",
     nodes |-> <<InputNode, LLM("llm-1", "openai", None),
                 LLM("llm-2", "openai", None), OutputNode>>,
     edges |-> <<Edge("input-1", "llm-1"), Edge("llm-1", "llm-2"),
                 Edge("llm-2", "missing-1")>>]

\* llm-1 has no outgoing edge
DeadEnd ==
    [id |-> "wf-deadend",
     nodes |-> <<InputNode, LLM("llm-1", "openai", None)>>,
     edges |-> <<Edge("input-1", "llm-1")>>]

\* input-1 and a transform node point at each other: the walk recurses
\* without ever suspending
Loop ==
    [id |-> "wf-loop",
     nodes |-> <<InputNode, Node("transform-1", "transform", "undefined", None, None),
                 OutputNode>>,
     edges |-> <<Edge("input-1", "transform-1"), Edge("transform-1", "input-1")>>]

\* a transform node on the chain, before the only llm node
ThroughTransform ==
    [id |-> "wf-transform",
     nodes |-> <<InputNode, Node("transform-1", "transform", "undefined", None, None),
                 LLM("llm-1", "openai", None), OutputNode>>,
     edges |-> <<Edge("input-1", "transform-1"), Edge("transform-1", "llm-1"),
                 Edge("llm-1", "output-1")>>]

\* input -> llm-1 -> llm-2 -> llm-3 -> output
Chain3 ==
    [id |-> "wf-chain3",
     nodes |-> <<InputNode, LLM("llm-1", "openai", None), LLM("llm-2", "openai", None),
                 LLM("llm-3", "openai", None), OutputNode>>,
     edges |-> <<Edge("input-1", "llm-1"), Edge("llm-1", "llm-2"),
                 Edge("llm-2", "llm-3"), Edge("llm-3", "output-1")>>]

\* input-1 has two outgoing edges; llm-2 hangs on the second one only
Branch ==
    [id |-> "wf-branch",
     nodes |-> <<InputNode, LLM("llm-1", "openai", None), LLM("llm-2", "openai", None),
                 OutputNode>>,
     edges |-> <<Edge("input-1", "llm-1"), Edge("input-1", "llm-2"),
                 Edge("llm-1", "output-1"), Edge("llm-2", "output-1")>>]

\* the output node has an outgoing edge to a further llm node
AfterOutput ==
    [id |-> "wf-afteroutput",
     nodes |-> <<InputNode, LLM("llm-1", "openai", None), OutputNode,
                 LLM("llm-2", "openai", None)>>,
     edges |-> <<Edge("input-1", "llm-1"), Edge("llm-1", "output-1"),
                 Edge("output-1", "llm-2")>>]

\* the first llm node has a dot in its id; the second one's template names
\* `llm-1`, an id no node has
Dotted ==
    [id |-> "wf-dotted",
     nodes |-> <<InputNode, LLM("llm.1", "openai", None),
                 LLM("llm-2", "openai", Some(Ph(<<"llm-1">>))), OutputNode>>,
     edges |-> <<Edge("input-1", "llm.1"), Edge("llm.1", "llm-2"),
                 Edge("llm-2", "output-1")>>]

Templates2 ==
    {Some(Ph(<<"llm-1">>)), Some(Ph(<<"input">>)), Some(Ph(<<"input-1">>)),
     Some(Ph(<<"llm-1", "_edits">>)), Some(Ph(<<"unknown_name">>))}

Workflows ==
    {Chain(p[1], t1, p[2], t2) :
        p \in {<<"openai", "openai">>, <<"openai", "anthropic">>},
        t1 \in {None, Some(Ph(<<"input-1">>))},
        t2 \in Templates2}
    \cup {NoInput, Dangling, DeadEnd, Loop, ThroughTransform, Chain3, Branch,
          AfterOutput, Dotted, DanglingLate}

\* the transport layer hands over whatever JSON value the request carried
Inputs == {<<"hello">>, Ph(<<"llm-2">>), <<"$&">>, ObjectValue}

Config(type, key) == [type |-> type, config |-> [apiKey |-> key]]

ProviderConfigs(key) ==
    {<<Config("openai", key)>>,
     <<Config("openai", key), Config("anthropic", key)>>,
     <<Config("openai", key), Config("google", key), Config("anthropic", key)>>,
     <<Config("deepseek", key), Config("openai", key)>>,
     <<Config("anthropic", key), Config("mistral", key), Config("openai", key)>>,
     << >>}

Tagged ==
    <<"intro", " ", "<B_Edits>", " ", "fix X", " ", "</B_Edits>", " ",
      "<B_Reasoning>", "because Y", "</B_Reasoning>", " ", "end">>

\* what the vendor may answer to a prompt
Contents(prompt) ==
    {<<"ECHO:">> \o prompt, << >>, Tagged, <<"see ">> \o Ph(<<"llm-2">>),
     ObjectValue}

Response(ok, content, cost, error) ==
    [ok |-> ok, content |-> content, cost |-> cost, error |-> error]

Responses(provider, contents, costs) ==
    {Response(TRUE, content, cost, << >>) : content \in contents, cost \in costs}
    \cup {Response(FALSE, << >>, 0, ExecuteError(provider.id, "upstream"))}

----------------------------------------------------------------------------
(* One executeWorkflow call at a time                                      *)

Caller == "A"

Execute ==
    \E workflow \in Workflows, inputPrompt \in Inputs,
       providerConfigs \in ProviderConfigs("key-A") :
        Start(Caller, workflow, inputPrompt, providerConfigs)

Respond ==
    /\ call[Caller].pc = "awaitProvider"
    /\ \E response \in Responses(Val(call[Caller].provider),
                                 Contents(Val(call[Caller].step).input),
                                 0..MaxCost) :
        ProviderResponds(Caller, response)

Resume == ResumeAfterStep(Caller)

Finish == Complete(Caller)

Debug == CollectNodeDebug(Caller)

Next == Execute \/ Respond \/ Resume \/ Finish \/ Debug

Spec == Init /\ [][Next]_vars

----------------------------------------------------------------------------
(* Observations used by the properties                                     *)

Returned(c) == call[c].pc = "returned"

\* the provider types a call supplied a config for
ConfiguredTypes(c) ==
    {call[c].providerConfigs[i].type : i \in 1..Len(call[c].providerConfigs)}

NodeOf(c, nodeId) ==
    Val(FindById(Val(call[c].workflow).nodes, nodeId))

\* steps of the call whose node names a provider the call gave no config for
UnconfiguredSteps(c) ==
    {i \in 1..Len(call[c].steps) :
        NodeOf(c, call[c].steps[i].nodeId).provider \notin ConfiguredTypes(c)}

FailedSteps(c) ==
    {i \in 1..Len(call[c].steps) : call[c].steps[i].status = "failed"}

----------------------------------------------------------------------------
(* Properties                                                              *)

\* C1: once an LLM node's step has ended 'failed', the walk stops: the failed
\* step is the last step of the execution, and the call neither has a later
\* provider.execute outstanding nor a later step pending.
C1_WalkStopsAtFailedStep ==
    \A c \in Calls : \A i \in FailedSteps(c) :
        /\ i = Len(call[c].steps)
        /\ call[c].pc \notin {"awaitProvider", "awaitStep"}

\* C2: a returned record of an execution in which a step failed has status
\* 'failed' and carries that step's error message; so a 'completed' record
\* has only completed steps.
C2_StepFailureFailsExecution ==
    \A c \in Calls : Returned(c) =>
        \A i \in FailedSteps(c) :
            /\ call[c].execution.status = "failed"
            /\ call[c].execution.error = call[c].steps[i].error

\* C3: when an executed LLM node names a provider the call supplied no config
\* for, the returned record is 'failed', its error is the 'not registered'
\* message for that provider, and it has no outputResult.
C3_UnregisteredProviderFails ==
    \A c \in Calls : Returned(c) =>
        \A i \in UnconfiguredSteps(c) :
            /\ call[c].execution.status = "failed"
            /\ call[c].execution.error =
                   Some(NotRegistered(NodeOf(c, call[c].steps[i].nodeId).provider))
            /\ call[c].execution.outputResult = None

\* C7: whenever an LLM node's template variables are built, the variable
\* `input` is the inputPrompt given to executeWorkflow.
C7_InputIsOriginalPrompt ==
    \A c \in Calls : IsSome(call[c].templateVariables) =>
        MapGet(Val(call[c].templateVariables), <<"input">>) = call[c].inputPrompt


\* the linear chain input -> llm-1 ({input}) -> llm-2 ({llm-1}) -> output
IsLinearChain(c) ==
    /\ IsSome(call[c].workflow)
    /\ \E p1 \in {"openai", "anthropic"}, p2 \in {"openai", "anthropic"} :
          Val(call[c].workflow) = Chain(p1, None, p2, Some(Ph(<<"llm-1">>)))

BothStepsCompleted(c) ==
    /\ Len(call[c].steps) = 2
    /\ \A i \in 1..2 : call[c].steps[i].status = "completed"

\* C8: on the linear chain with both LLM steps completed, llm-1's prompt is
\* the caller's inputPrompt, llm-2's prompt is exactly the output llm-1
\* returned, and the record's final output is the output llm-2 returned.
C8_LinearChaining ==
    \A c \in Calls :
        (Returned(c) /\ IsLinearChain(c) /\ BothStepsCompleted(c)) =>
            /\ call[c].steps[1].input = call[c].inputPrompt
            /\ call[c].steps[2].input = Val(call[c].steps[1].output)
            /\ call[c].execution.outputResult = call[c].steps[2].output

InputNodeId(c) ==
    Val(FindByType(Val(call[c].workflow).nodes, "input")).id

\* C9: the Execution Context entry of the input node is the caller's input
\* text throughout the execution: at every LLM node the template variable
\* named after the input node is bound to the original inputPrompt, and a
\* template `{<input node id>}` resolves to the original inputPrompt.
C9_InputNodeEntryIsInputPrompt ==
    \A c \in Calls :
        /\ (IsSome(call[c].context) /\ HasKey(maps[Val(call[c].context)], InputNodeId(c)))
              => MapGet(maps[Val(call[c].context)], InputNodeId(c)) = call[c].inputPrompt
        /\ IsSome(call[c].templateVariables) =>
              /\ HasKey(Val(call[c].templateVariables), <<InputNodeId(c)>>)
              /\ MapGet(Val(call[c].templateVariables), <<InputNodeId(c)>>)
                     = call[c].inputPrompt
        /\ \A i \in 1..Len(call[c].sent) :
              NodeOf(c, call[c].sent[i].nodeId).prompt = Some(Ph(<<InputNodeId(c)>>))
              => call[c].sent[i].prompt = call[c].inputPrompt

\* C10: a call that has come back came back with a record whose status is
\* 'completed' or 'failed', never 'running', and a failed record has its
\* error set; no failure during registration, input-node lookup, the walk or
\* result assembly leaves the call without a record.
C10_AlwaysReturnsARecord ==
    \A c \in Calls :
        /\ call[c].pc \in {"idle", "awaitProvider", "awaitStep", "walkReturned",
                           "collectDebug", "returned"}
        /\ Returned(c) =>
              /\ call[c].execution.status \in {"completed", "failed"}
              /\ call[c].execution.status = "failed" => IsSome(call[c].execution.error)
              /\ call[c].execution.status = "completed" =>
                    IsSome(call[c].execution.outputResult)

\* reached: the nodeDebug loop threw after the record had been set to
\* 'completed', and the call still came back with a failed record
C10_Witness ==
    \E c \in Calls :
        /\ Returned(c)
        /\ IsSome(call[c].result)
        /\ call[c].execution.status = "failed"
        /\ call[c].execution.error = Some(NotAFunction("step.output.match"))

\* C11: the record's status changes only away from 'running': once it is
\* 'completed' or 'failed' no later step of the call changes it, so a record
\* set to 'completed' is never turned into 'failed' while the debug trail is
\* built.
C11_StatusChangesOnce ==
    [][\A c \in Calls :
          call[c].execution.status # call'[c].execution.status
              => call[c].execution.status = "running"]_vars

\* C12: a returned record with status 'failed' has no outputResult, whichever
\* step of the call raised the failure.
C12_FailedHasNoOutput ==
    \A c \in Calls :
        (Returned(c) /\ call[c].execution.status = "failed")
            => call[c].execution.outputResult = None

\* the sum of the cost fields of a list of steps
RECURSIVE SumOfStepCosts(_)
SumOfStepCosts(steps) ==
    IF steps = << >> THEN 0
    ELSE SumOfStepCosts(SubSeq(steps, 1, Len(steps) - 1)) + steps[Len(steps)].cost

\* C13: on a completed execution the record's totalCost is the sum of the
\* costs of the steps the walk produced, however many LLM nodes the chain has.
C13_TotalCostIsSumOfSteps ==
    \A c \in Calls :
        (Returned(c) /\ call[c].execution.status = "completed") =>
            /\ Val(call[c].result).steps = call[c].steps
            /\ call[c].execution.totalCost = SumOfStepCosts(call[c].steps)

\* reached: a completed chain of three LLM nodes, every step with a cost
C13_Witness ==
    \E c \in Calls :
        /\ Returned(c) /\ call[c].execution.status = "completed"
        /\ Len(call[c].steps) = 3
        /\ \A i \in 1..3 : call[c].steps[i].cost = MaxCost
        /\ call[c].execution.totalCost = 3 * MaxCost

\* C14: on a completed execution nodeDebug has one entry per step, in
\* execution order, and the i-th entry carries the i-th step's node id, the
\* resolved prompt that was passed to provider.execute for it and the text
\* the provider returned for it.
C14_DebugTrailMatchesSteps ==
    \A c \in Calls :
        (Returned(c) /\ call[c].execution.status = "completed") =>
            /\ IsSome(call[c].execution.nodeDebug)
            /\ Len(Val(call[c].execution.nodeDebug)) = Len(call[c].steps)
            /\ Len(call[c].sent) = Len(call[c].steps)
            /\ Len(call[c].settled) = Len(call[c].steps)
            /\ \A i \in 1..Len(call[c].steps) :
                  LET entry == Val(call[c].execution.nodeDebug)[i]
                  IN /\ entry.id = call[c].steps[i].nodeId
                     /\ call[c].sent[i].nodeId = entry.id
                     /\ entry.prompt = call[c].sent[i].prompt
                     /\ call[c].settled[i].response.ok
                     /\ entry.output = call[c].settled[i].response.content

\* the chain as the workflow lays it out: from the input node along the first
\* outgoing edge of each node, up to the node before an output node, a dead
\* end, a missing target or a node already on the chain
RECURSIVE FirstEdgePath(_, _, _)
FirstEdgePath(workflow, node, seen) ==
    LET out == SelectSeq(workflow.edges, LAMBDA e : e.source = node.id)
        next == FindById(workflow.nodes, out[1].target)
    IN IF node.id \in seen THEN << >>
       ELSE IF out = << >> THEN <<node.id>>
       ELSE IF ~IsSome(next) \/ Val(next).type = "output" THEN <<node.id>>
       ELSE <<node.id>> \o FirstEdgePath(workflow, Val(next), seen \cup {node.id})

ChainOrder(c) ==
    LET workflow == Val(call[c].workflow)
        inputNode == FindByType(workflow.nodes, "input")
    IN IF IsSome(inputNode) THEN FirstEdgePath(workflow, Val(inputNode), {})
       ELSE << >>

PositionIn(seq, x) == CHOOSE i \in 1..Len(seq) : seq[i] = x

\* provider calls issued and not yet settled
Outstanding(c) == Len(call[c].sent) - Len(call[c].settled)

RECURSIVE ReachableFrom(_, _)
ReachableFrom(S, E) ==
    LET T == S \cup {e.target : e \in {x \in E : x.source \in S}}
    IN IF T = S THEN S ELSE ReachableFrom(T, E)

AllEdges(workflow) == {workflow.edges[i] : i \in 1..Len(workflow.edges)}

\* for each source, its outgoing edge that comes first in the edge list
FirstEdges(workflow) ==
    {workflow.edges[i] : i \in {k \in 1..Len(workflow.edges) :
        \A j \in 1..(k - 1) : workflow.edges[j].source # workflow.edges[k].source}}

\* llm nodes reachable from the input node, but only through some edge that
\* is not the first outgoing edge of its source
OffFirstEdges(c) ==
    LET workflow == Val(call[c].workflow)
        inputNode == FindByType(workflow.nodes, "input")
    IN IF ~IsSome(inputNode) THEN {}
       ELSE {workflow.nodes[i].id : i \in {k \in 1..Len(workflow.nodes) :
                /\ workflow.nodes[k].type = "llm"
                /\ workflow.nodes[k].id
                       \in ReachableFrom({Val(inputNode).id}, AllEdges(workflow))
                /\ workflow.nodes[k].id
                       \notin ReachableFrom({Val(inputNode).id}, FirstEdges(workflow))}}

\* the node ids a call has a step, a provider call, a context entry or a
\* debug entry for
Executed(c) ==
    {call[c].steps[i].nodeId : i \in 1..Len(call[c].steps)}
    \cup {call[c].sent[i].nodeId : i \in 1..Len(call[c].sent)}
    \cup (IF IsSome(call[c].context)
          THEN {maps[Val(call[c].context)][i].k :
                   i \in 1..Len(maps[Val(call[c].context)])}
          ELSE {})
    \cup (IF IsSome(call[c].execution.nodeDebug)
          THEN {Val(call[c].execution.nodeDebug)[i].id :
                   i \in 1..Len(Val(call[c].execution.nodeDebug))}
          ELSE {})
    \cup (IF IsSome(call[c].node) THEN {Val(call[c].node).id} ELSE {})

\* C16: an LLM node that the input node reaches only through a non-first
\* outgoing edge is never executed: it gets no step, no provider call, no
\* context entry and no debug entry, and adds nothing to the total cost.
C16_OnlyFirstEdgeIsFollowed ==
    \A c \in Calls : IsSome(call[c].workflow) =>
        /\ Executed(c) \cap OffFirstEdges(c) = {}
        /\ IsSome(call[c].result) =>
              Val(call[c].result).totalCost =
                  SumOfStepCosts(SelectSeq(call[c].steps,
                      LAMBDA step : step.nodeId \notin OffFirstEdges(c)))

\* reached: the branching workflow completed with llm-1 as its only step
C16_Witness ==
    \E c \in Calls :
        /\ Returned(c) /\ call[c].execution.status = "completed"
        /\ Val(call[c].workflow) = Branch
        /\ OffFirstEdges(c) = {"llm-2"}
        /\ Len(call[c].steps) = 1 /\ call[c].steps[1].nodeId = "llm-1"
        /\ call[c].steps[1].status = "completed"
        /\ Len(Val(call[c].execution.nodeDebug)) = 1
        /\ call[c].execution.totalCost = MaxCost

OutputIds(workflow) ==
    {workflow.nodes[i].id : i \in {k \in 1..Len(workflow.nodes) :
                                      workflow.nodes[k].type = "output"}}

\* node ids that the input node reaches only by leaving an output node
BeyondOutput(c) ==
    LET workflow == Val(call[c].workflow)
        inputNode == FindByType(workflow.nodes, "input")
    IN IF ~IsSome(inputNode) THEN {}
       ELSE ReachableFrom({Val(inputNode).id}, AllEdges(workflow))
            \ ReachableFrom({Val(inputNode).id},
                   {e \in AllEdges(workflow) : e.source \notin OutputIds(workflow)})

\* the chain ends because the node after its last node is an output node
EndsAtOutput(c) ==
    LET workflow == Val(call[c].workflow)
        chain == ChainOrder(c)
        out == SelectSeq(workflow.edges, LAMBDA e : e.source = chain[Len(chain)])
    IN /\ chain # << >>
       /\ out # << >>
       /\ out[1].target \in OutputIds(workflow)

\* C17: the walk stops when the next node on the chain is an output node:
\* the output node is not entered, no node lying beyond an output node is
\* executed, and the final output is the running text held for the chain's
\* last node at that point.
C17_WalkStopsAtOutputNode ==
    \A c \in Calls : IsSome(call[c].workflow) =>
        /\ Executed(c) \cap (BeyondOutput(c) \cup OutputIds(Val(call[c].workflow))) = {}
        /\ (EndsAtOutput(c) /\ IsSome(call[c].result)) =>
              /\ Val(call[c].result).output =
                     MapGet(maps[Val(call[c].context)],
                            ChainOrder(c)[Len(ChainOrder(c))])
              /\ call[c].execution.status = "completed" =>
                     call[c].execution.outputResult = Some(Val(call[c].result).output)

\* reached: the workflow with an llm node behind its output node completed,
\* with llm-1 as its only step and llm-1's output as the final output
C17_Witness ==
    \E c \in Calls :
        /\ Returned(c) /\ call[c].execution.status = "completed"
        /\ Val(call[c].workflow) = AfterOutput
        /\ BeyondOutput(c) = {"llm-2"}
        /\ Len(call[c].steps) = 1 /\ call[c].steps[1].status = "completed"
        /\ call[c].execution.outputResult = Some(<<"ECHO:", "hello">>)

HasInputNode(workflow) ==
    \E i \in 1..Len(workflow.nodes) : workflow.nodes[i].type = "input"

\* C18: a call on a workflow without a node of kind input comes back with
\* status 'failed' and an error message; no node is executed and no
\* provider.execute call is made at any point of the call.
C18_NoInputNodeFails ==
    \A c \in Calls :
        (IsSome(call[c].workflow) /\ ~HasInputNode(Val(call[c].workflow))) =>
            /\ Returned(c)
            /\ call[c].execution.status = "failed"
            /\ IsSome(call[c].execution.error)
            /\ call[c].execution.outputResult = None
            /\ Executed(c) = {}
            /\ call[c].sent = << >> /\ call[c].steps = << >>

\* reached: the workflow without input node, every provider it names
\* configured, failed on the lookup of the input node
C18_Witness ==
    \E c \in Calls :
        /\ Returned(c)
        /\ Val(call[c].workflow) = NoInput
        /\ "openai" \in DOMAIN providers
        /\ call[c].execution.status = "failed"
        /\ call[c].execution.error = Some(<<"Workflow must have an input node">>)

\* the prompt template of a node, as executeLLMNode takes it
TemplateOf(c, nodeId) == OrElse(NodeOf(c, nodeId).prompt, DefaultPrompt)

\* the names of the placeholders `{name}` that occur in a text
PlaceholderNames(text) ==
    {SubSeq(text, i + 1, j - 1) :
        <<i, j>> \in {p \in (1..Len(text)) \X (1..Len(text)) :
            /\ p[1] + 1 < p[2]
            /\ text[p[1]] = "{" /\ text[p[2]] = "}"
            /\ \A k \in (p[1] + 1)..(p[2] - 1) : text[k] \notin {"{", "}"}}}

Occurs(part, text) == \E i \in 1..Len(text) : IsPrefixAt(text, i, part)

\* C22: a placeholder of a node's template whose name has no entry in the
\* Template Variable Set is still in the resolved prompt as the literal
\* `{name}`; a template that is nothing but such a placeholder resolves to
\* itself.
C22_UnknownPlaceholderIsKept ==
    \A c \in Calls : \A i \in 1..Len(call[c].sent) :
        \A name \in PlaceholderNames(TemplateOf(c, call[c].sent[i].nodeId)) :
            ~HasKey(call[c].sent[i].variables, name) =>
                /\ Occurs(Ph(name), call[c].sent[i].prompt)
                /\ TemplateOf(c, call[c].sent[i].nodeId) = Ph(name) =>
                       call[c].sent[i].prompt = Ph(name)

\* the inner text of the first `open ... close` span of a text, trimmed
InnerText(output, open, close) ==
    LET opens == {i \in 1..Len(output) :
                     /\ output[i] = open
                     /\ \E j \in (i + 1)..Len(output) : output[j] = close}
    IN IF opens = {} THEN None
       ELSE LET i == CHOOSE x \in opens : \A y \in opens : x <= y
                j == CHOOSE x \in (i + 1)..Len(output) :
                         /\ output[x] = close
                         /\ \A y \in (i + 1)..(x - 1) : output[y] # close
            IN Some(Trim(SubSeq(output, i + 1, j - 1)))

\* the variable `<nodeId><suffix>` of a resolution agrees with the span of
\* the text the provider returned for that node
TagVariableAgrees(output, entry, nodeId, suffix, open, close) ==
    LET inner == InnerText(output, open, close)
        key == <<nodeId, suffix>>
    IN /\ HasKey(entry.variables, key) <=> IsSome(inner)
       /\ IsSome(inner) =>
             /\ MapGet(entry.variables, key) = Val(inner)
             /\ TemplateOf(Caller, entry.nodeId) = Ph(key) =>
                    entry.prompt = Val(inner)

\* C23: for every node whose provider call returned a text, at every later
\* resolution of the same execution the variable `<nodeId>_edits` (resp.
\* `<nodeId>_reasoning`) is defined exactly when that text has a
\* `<B_Edits>` (resp. `<B_Reasoning>`) span, equals the trimmed inner text
\* of the first span, and a template that is `{<nodeId>_edits}` resolves to
\* exactly that text.
C23_TagExtraction ==
    \A i \in 1..Len(call[Caller].settled) :
        \A j \in (i + 1)..Len(call[Caller].sent) :
            LET done == call[Caller].settled[i]
            IN (done.response.ok /\ IsString(done.response.content)) =>
                  /\ TagVariableAgrees(done.response.content,
                                       call[Caller].sent[j], done.nodeId,
                                       "_edits", "<B_Edits>", "</B_Edits>")
                  /\ TagVariableAgrees(done.response.content,
                                       call[Caller].sent[j], done.nodeId,
                                       "_reasoning", "<B_Reasoning>",
                                       "</B_Reasoning>")

\* C24: after a completed step, the Execution Context entry of its node and
\* the running text handed to the next node both equal the text the
\* provider returned, the empty text included (seen at the next resolution:
\* the entry of the finished node and the entry the next node got on entry).
C24_OutputBecomesRunningText ==
    \A c \in Calls : \A i \in 1..Len(call[c].settled) :
        LET done == call[c].settled[i]
        IN (/\ done.response.ok
            /\ IsString(done.response.content)
            /\ i + 1 <= Len(call[c].sent)) =>
              LET next == call[c].sent[i + 1]
              IN /\ MapGet(next.variables, <<done.nodeId>>)
                        = done.response.content
                 /\ MapGet(next.variables, <<next.nodeId>>)
                        = done.response.content

\* the node-id keys of a Template Variable Set
NodeIdKeys(variables) ==
    {variables[i].k[1] : i \in {x \in 1..Len(variables) :
                                   /\ Len(variables[x].k) = 1
                                   /\ variables[x].k # <<"input">>}}

\* C25: when the template of an LLM node is resolved, the node-id entries
\* of the Template Variable Set are exactly the ids of the nodes that come
\* before it on the chain, and the node itself has no entry.
C25_VariablesNameEarlierNodesOnly ==
    \A c \in Calls : \A i \in 1..Len(call[c].sent) :
        LET entry == call[c].sent[i]
            order == ChainOrder(c)
        IN /\ NodeIdKeys(entry.variables)
                 = {order[j] : j \in 1..(PositionIn(order, entry.nodeId) - 1)}
           /\ ~HasKey(entry.variables, <<entry.nodeId>>)

\* the chain ends at a node that has no outgoing edge and is not an output
\* node
EndsAtDeadEnd(c) ==
    LET workflow == Val(call[c].workflow)
        chain == ChainOrder(c)
    IN /\ chain # << >>
       /\ SelectSeq(workflow.edges, LAMBDA e : e.source = chain[Len(chain)]) = << >>
       /\ chain[Len(chain)] \notin OutputIds(workflow)

\* C30: when the walk has come to a node with no outgoing edge and has
\* returned from it, the call returns a record with status 'completed'
\* whose final output is the running text held for that node.
C30_DeadEndCompletes ==
    \A c \in Calls :
        (/\ Returned(c)
         /\ IsSome(call[c].workflow)
         /\ IsSome(call[c].result)
         /\ EndsAtDeadEnd(c)) =>
            /\ call[c].execution.status = "completed"
            /\ call[c].execution.outputResult
                   = Some(MapGet(maps[Val(call[c].context)],
                                 ChainOrder(c)[Len(ChainOrder(c))]))

\* C31: every step in the result of the walk is finalized: its status is
\* 'completed' or 'failed'; a completed step has an output and no error; a
\* failed step has an error, no output and cost 0.
C31_StepsAreFinalized ==
    \A c \in Calls :
        IsSome(call[c].result) =>
            \A i \in 1..Len(Val(call[c].result).steps) :
                LET step == Val(call[c].result).steps[i]
                IN /\ step.status \in {"completed", "failed"}
                   /\ step.status = "completed" =>
                         IsSome(step.output) /\ ~IsSome(step.error)
                   /\ step.status = "failed" =>
                         /\ IsSome(step.error)
                         /\ ~IsSome(step.output)
                         /\ step.cost = 0

\* the keys of a variable set whose placeholder stands at position i
KeysAt(template, i, variables) ==
    {x \in 1..Len(variables) : IsPrefixAt(template, i, Ph(variables[x].k))}

\* a template with each placeholder it contains replaced, in one pass, by
\* the string form of the value of that variable, copied as it is
RECURSIVE VerbatimFrom(_, _, _)
VerbatimFrom(template, i, variables) ==
    IF i > Len(template) THEN << >>
    ELSE IF KeysAt(template, i, variables) # {}
         THEN LET x == CHOOSE y \in KeysAt(template, i, variables) : TRUE
              IN String(variables[x].v)
                 \o VerbatimFrom(template, i + Len(variables[x].k) + 2, variables)
         ELSE <<template[i]>> \o VerbatimFrom(template, i + 1, variables)

\* C32: the prompt a node's template resolves to is the template with the
\* placeholders that occur in it replaced by the values of their variables,
\* each value copied verbatim: nothing that a value contains is expanded.
C32_ValuesAreCopiedVerbatim ==
    \A c \in Calls : \A i \in 1..Len(call[c].sent) :
        call[c].sent[i].prompt
            = VerbatimFrom(TemplateOf(c, call[c].sent[i].nodeId), 1,
                           call[c].sent[i].variables)

\* the node ids that the nodeDebug of the returned record has an entry for
DebuggedIds(c) ==
    IF IsSome(call[c].execution.nodeDebug)
    THEN {Val(call[c].execution.nodeDebug)[i].id :
             i \in 1..Len(Val(call[c].execution.nodeDebug))}
    ELSE {}

\* C33: the record executeWorkflow returns has a nodeDebug entry for every
\* LLM node whose step failed.
C33_FailedStepsAreInNodeDebug ==
    \A c \in Calls :
        Returned(c) =>
            \A i \in FailedSteps(c) : call[c].steps[i].nodeId \in DebuggedIds(c)

\* the kind of the node at a position of the chain
KindAt(c, k) == NodeOf(c, ChainOrder(c)[k]).type

\* C35: nodes of the chain that are not llm nodes are passed through: no
\* step and no provider call belongs to one, the frame of one adds no cost,
\* and the text handed on by one is the text it received (seen at each
\* resolution: the entry of a passed-through node equals the entry of the
\* node after it, when that node is the one being resolved or is itself
\* passed through).
C35_OnlyLLMNodesAct ==
    \A c \in Calls : IsSome(call[c].workflow) =>
        /\ \A i \in 1..Len(call[c].steps) :
              NodeOf(c, call[c].steps[i].nodeId).type = "llm"
        /\ \A i \in 1..Len(call[c].sent) :
              NodeOf(c, call[c].sent[i].nodeId).type = "llm"
        /\ \A k \in 1..Len(call[c].costs) :
              (k <= Len(ChainOrder(c)) /\ KindAt(c, k) # "llm") =>
                  call[c].costs[k] = 0
        /\ \A i \in 1..Len(call[c].sent) :
              LET entry == call[c].sent[i]
                  order == ChainOrder(c)
              IN \A k \in 1..(PositionIn(order, entry.nodeId) - 1) :
                    (/\ KindAt(c, k) # "llm"
                     /\ \/ order[k + 1] = entry.nodeId
                        \/ KindAt(c, k + 1) # "llm") =>
                        MapGet(entry.variables, <<order[k]>>)
                            = MapGet(entry.variables, <<order[k + 1]>>)

\* reached: the walk went through the input node and a transform node to
\* llm-1, whose call saw the caller's text under all three ids, and the
\* record is completed with llm-1's step as its only step and its cost as
\* the total
C35_Witness ==
    \E c \in Calls :
        /\ Returned(c) /\ call[c].execution.status = "completed"
        /\ Val(call[c].workflow) = ThroughTransform
        /\ call[c].inputPrompt = <<"hello">>
        /\ Len(call[c].steps) = 1 /\ call[c].steps[1].nodeId = "llm-1"
        /\ call[c].steps[1].status = "completed"
        /\ Len(call[c].sent) = 1
        /\ MapGet(call[c].sent[1].variables, <<"transform-1">>) = <<"hello">>
        /\ MapGet(call[c].sent[1].variables, <<"llm-1">>) = <<"hello">>
        /\ call[c].costs = <<0, 0, 1>>
        /\ call[c].execution.totalCost = 1

\* the positions of providerConfigs whose type has no implementation
Refused(c) ==
    {i \in 1..Len(call[c].providerConfigs) :
        call[c].providerConfigs[i].type \notin {"openai", "anthropic"}}

FirstRefused(c) == CHOOSE i \in Refused(c) : \A j \in Refused(c) : i <= j

\* C36: a call whose providerConfigs names google, deepseek or an unknown
\* type returns 'failed' with the message of the first such type, without a
\* step, a context or a provider call, whatever providers the workflow
\* names; the types listed before it are registered, with the call's
\* configs, and those listed after it are not.
C36_RefusedConfigFailsBeforeTheWalk ==
    \A c \in Calls :
        (call[c].invoked /\ Refused(c) # {}) =>
            LET configs == call[c].providerConfigs
                bad == configs[FirstRefused(c)].type
            IN /\ Returned(c)
               /\ call[c].execution.status = "failed"
               /\ call[c].execution.error =
                      Some(CASE bad = "google" ->
                                  <<"Google Gemini provider not yet implemented">>
                             [] bad = "deepseek" ->
                                  <<"DeepSeek provider not yet implemented">>
                             [] OTHER -> <<"Unsupported provider type: ", bad>>)
               /\ call[c].steps = << >> /\ call[c].sent = << >>
               /\ ~IsSome(call[c].context) /\ ~IsSome(call[c].result)
               /\ DOMAIN providers =
                      {configs[i].type : i \in 1..(FirstRefused(c) - 1)}
               /\ \A i \in 1..(FirstRefused(c) - 1) :
                      providers[configs[i].type] =
                          [id |-> configs[i].type, apiKey |-> configs[i].config.apiKey]

\* reached: a chain whose nodes name openai only was called with configs for
\* openai, google and anthropic, in that order; the call failed on google,
\* openai is registered and anthropic is not
C36_Witness ==
    \E c \in Calls :
        /\ Returned(c) /\ call[c].execution.status = "failed"
        /\ Val(call[c].workflow) = Chain("openai", None, "openai", Some(Ph(<<"llm-1">>)))
        /\ call[c].providerConfigs =
              <<Config("openai", "key-A"), Config("google", "key-A"),
                Config("anthropic", "key-A")>>
        /\ call[c].steps = << >> /\ call[c].sent = << >>
        /\ DOMAIN providers = {"openai"}

\* the target of the edge followed out of the node of the last step, when
\* the node list has no node of that id
MissingTarget(c) ==
    LET workflow == Val(call[c].workflow)
        last == call[c].steps[Len(call[c].steps)].nodeId
        outgoingEdges == SelectSeq(workflow.edges, LAMBDA edge : edge.source = last)
    IN IF /\ outgoingEdges # << >>
          /\ \A i \in 1..Len(workflow.nodes) :
                 workflow.nodes[i].id # outgoingEdges[1].target
       THEN Some(outgoingEdges[1].target)
       ELSE None

CompletedSteps(c) ==
    {i \in 1..Len(call[c].steps) : call[c].steps[i].status = "completed"}

\* C37: when the call has returned after the walk followed, out of the node
\* of its last step, an edge to an id that is not in the node list, and a
\* step had completed by then, the record has status 'failed', the error
\* 'Next node <id> not found', totalCost 0, no final output and no
\* nodeDebug, whatever the completed steps cost.
C37_MissingNodeDropsCostsAndDebug ==
    \A c \in Calls :
        (/\ Returned(c)
         /\ call[c].steps # << >>
         /\ CompletedSteps(c) # {}
         /\ IsSome(MissingTarget(c))) =>
            /\ call[c].execution.status = "failed"
            /\ call[c].execution.error =
                   Some(<<"Next node ", Val(MissingTarget(c)), " not found">>)
            /\ call[c].execution.totalCost = 0
            /\ call[c].execution.outputResult = None
            /\ call[c].execution.nodeDebug = None
            /\ ~IsSome(call[c].result)

\* reached: both llm nodes of the late-dangling workflow completed a step
\* that cost 1, the edge to missing-1 failed the call, and the record
\* reports totalCost 0 and no nodeDebug
C37_Witness ==
    \E c \in Calls :
        /\ Returned(c)
        /\ Val(call[c].workflow) = DanglingLate
        /\ Len(call[c].steps) = 2
        /\ \A i \in 1..2 : /\ call[c].steps[i].status = "completed"
                            /\ call[c].steps[i].cost = 1
        /\ call[c].execution.status = "failed"
        /\ call[c].execution.error = Some(<<"Next node ", "missing-1", " not found">>)
        /\ call[c].execution.totalCost = 0
        /\ call[c].execution.nodeDebug = None

----------------------------------------------------------------------------
(* Two callers whose executeWorkflow calls may overlap                     *)

ConcurrentWorkflows ==
    {Chain(p[1], None, p[2], Some(Ph(<<"llm-1">>))) :
        p \in {<<"openai", "openai">>, <<"openai", "anthropic">>}}

InputOf(c) == IF c = "A" THEN <<"hello-A">> ELSE <<"hello-B">>
KeyOf(c) == IF c = "A" THEN "key-A" ELSE "key-B"

ConcurrentConfigs(c) ==
    {<<Config("openai", KeyOf(c)), Config("anthropic", KeyOf(c))>>,
     <<Config("anthropic", KeyOf(c))>>}

ExecuteAny ==
    \E c \in Calls, workflow \in ConcurrentWorkflows :
        \E providerConfigs \in ConcurrentConfigs(c) :
            Start(c, workflow, InputOf(c), providerConfigs)

RespondAny ==
    \E c \in Calls :
        /\ call[c].pc = "awaitProvider"
        /\ \E response \in Responses(Val(call[c].provider),
                                     {<<"ECHO:">> \o Val(call[c].step).input},
                                     {MaxCost}) :
            ProviderResponds(c, response)

ResumeAny == \E c \in Calls : ResumeAfterStep(c)

FinishAny == \E c \in Calls : Complete(c)

DebugAny == \E c \in Calls : CollectNodeDebug(c)

NextConcurrent == ExecuteAny \/ RespondAny \/ ResumeAny \/ FinishAny \/ DebugAny

SpecConcurrent == Init /\ [][NextConcurrent]_vars

\* the apiKey a call supplied for a provider type
OwnKey(c, type) ==
    call[c].providerConfigs[CHOOSE i \in 1..Len(call[c].providerConfigs) :
                               call[c].providerConfigs[i].type = type].config.apiKey

\* the provider types the LLM nodes of a call's workflow name
ReferencedTypes(c) ==
    {Val(call[c].workflow).nodes[i].provider :
        i \in {j \in 1..Len(Val(call[c].workflow).nodes) :
                  Val(call[c].workflow).nodes[j].type = "llm"}}

\* C4: every provider.execute issued by a call that supplied a config for
\* each provider its workflow names runs on the instance built from that
\* call's own config (its own apiKey), at the first LLM node and at every
\* later one, whatever another call registers meanwhile.
C4_CallsUseOwnProviderInstance ==
    \A c \in Calls :
        (IsSome(call[c].workflow) /\ ReferencedTypes(c) \subseteq ConfiguredTypes(c)) =>
            \A i \in 1..Len(call[c].sent) :
                call[c].sent[i].provider.apiKey
                    = OwnKey(c, call[c].sent[i].provider.id)

\* C5: a call that started after every other call had returned, and that
\* supplied no config for the provider an LLM node names, gets the 'not
\* registered' failure for that node and never the instance an earlier call
\* registered.
C5_RegistrationsDoNotPersist ==
    \A c \in Calls :
        (call[c].pc # "idle" /\ call[c].startedAfter = Calls \ {c}) =>
            /\ \A i \in UnconfiguredSteps(c) :
                  /\ call[c].steps[i].status = "failed"
                  /\ call[c].steps[i].error =
                         Some(NotRegistered(NodeOf(c, call[c].steps[i].nodeId).provider))
            /\ \A i \in 1..Len(call[c].sent) :
                  call[c].sent[i].provider.id \in ConfiguredTypes(c)

\* the texts a call may legitimately see: its own input and what its own
\* provider calls returned
OwnTexts(c) ==
    {call[c].inputPrompt}
    \cup {Val(call[c].steps[i].output) :
            i \in {j \in 1..Len(call[c].steps) : IsSome(call[c].steps[j].output)}}
    \cup (IF IsSome(call[c].step) /\ IsSome(Val(call[c].step).output)
          THEN {Val(Val(call[c].step).output)} ELSE {})

NodeIds(c) ==
    {Val(call[c].workflow).nodes[i].id : i \in 1..Len(Val(call[c].workflow).nodes)}

\* C6: the Execution Context of a call, and the template variables built from
\* it, hold only that call's input text and outputs of that call's own nodes,
\* under the ids of that call's nodes, whatever the other call does meanwhile.
C6_ContextIsOwnedByOneCall ==
    \A c \in Calls :
        /\ IsSome(call[c].context) /\ ~Returned(c) =>
              \A i \in 1..Len(maps[Val(call[c].context)]) :
                  /\ maps[Val(call[c].context)][i].k \in NodeIds(c)
                  /\ maps[Val(call[c].context)][i].v \in OwnTexts(c)
        /\ IsSome(call[c].templateVariables) =>
              \A i \in 1..Len(Val(call[c].templateVariables)) :
                  Val(call[c].templateVariables)[i].v \in OwnTexts(c)

\* reached: both calls are suspended in the provider call of their second LLM
\* node, on workflows with the same node ids, each with its own variables
C6_Witness ==
    /\ \A c \in Calls :
          /\ call[c].pc = "awaitProvider"
          /\ Val(call[c].node).id = "llm-2"
          /\ MapGet(Val(call[c].templateVariables), <<"llm-1">>)
                 = <<"ECHO:">> \o InputOf(c)
    /\ Val(call["A"].workflow) = Val(call["B"].workflow)

----------------------------------------------------------------------------
(* validateWorkflow on graphs of every shape                               *)

MaxEdges == 3   \* edges of a validated workflow

GraphIds == <<"n1", "n2", "n3">>

Kinds == <<"input", "llm", "output">>

\* the node lists n1..nk with every combination of kinds; the checks count
\* kinds and look at ids, so one arrangement of each combination is listed
NodeLists ==
    UNION {{[i \in 1..k |-> Node(GraphIds[i], Kinds[ranks[i]], "undefined", None, None)] :
               ranks \in {r \in [1..k -> 1..Len(Kinds)] :
                              \A i \in 1..(k - 1) : r[i] <= r[i + 1]}} :
           k \in 0..Len(GraphIds)}

\* every edge between two listed ids, loops included, and edges from and to
\* an id that no node has
PossibleEdges ==
    {Edge(GraphIds[i], GraphIds[j]) : i \in 1..Len(GraphIds), j \in 1..Len(GraphIds)}
    \cup {Edge(GraphIds[Len(GraphIds)], "ghost"), Edge("ghost", GraphIds[Len(GraphIds)])}

\* edge lists in every order, repetitions included
EdgeLists == UNION {[1..k -> PossibleEdges] : k \in 0..MaxEdges}

ValidatedWorkflows ==
    {[id |-> "wf", nodes |-> nodes, edges |-> edges] :
        nodes \in NodeLists, edges \in EdgeLists}

ValidateAny ==
    /\ call[Caller].pc = "idle"
    /\ \E workflow \in ValidatedWorkflows : Validate(Caller, workflow)

RevalidateAny == Revalidate(Caller)

NextValidate == ValidateAny \/ RevalidateAny

SpecValidate == Init /\ [][NextValidate]_vars

Validated(c) == call[c].pc = "validated"

CountOfKind(workflow, kind) ==
    Cardinality({i \in 1..Len(workflow.nodes) : workflow.nodes[i].type = kind})

\* listed nodes that are neither source nor target of an edge, in a workflow
\* of more than one node
Isolated(workflow) ==
    {i \in 1..Len(workflow.nodes) :
        /\ Len(workflow.nodes) > 1
        /\ \A e \in AllEdges(workflow) :
              e.source # workflow.nodes[i].id /\ e.target # workflow.nodes[i].id}

\* some id reachable from a listed node lies on a directed cycle of the edges
HasReachableCycle(workflow) ==
    \E i \in 1..Len(workflow.nodes) :
        \E v \in ReachableFrom({workflow.nodes[i].id}, AllEdges(workflow)) :
            v \in ReachableFrom({e.target : e \in {x \in AllEdges(workflow) : x.source = v}},
                                AllEdges(workflow))

InputCheckFails(workflow) == CountOfKind(workflow, "input") # 1
OutputCheckFails(workflow) == CountOfKind(workflow, "output") = 0
DisconnectedCheckFails(workflow) == Isolated(workflow) # {}
CycleCheckFails(workflow) == HasReachableCycle(workflow)

FailingChecks(workflow) ==
    (IF InputCheckFails(workflow) THEN {"input"} ELSE {})
    \cup (IF OutputCheckFails(workflow) THEN {"output"} ELSE {})
    \cup (IF DisconnectedCheckFails(workflow) THEN {"disconnected"} ELSE {})
    \cup (IF CycleCheckFails(workflow) THEN {"cycle"} ELSE {})

\* the check an error message belongs to
CheckOf(message) ==
    CASE message \in {<<"Workflow must have at least one input node">>,
                      <<"Workflow can only have one input node">>} -> "input"
      [] message = <<"Workflow must have at least one output node">> -> "output"
      [] message[1] = "Disconnected nodes found: " -> "disconnected"
      [] message = <<"Workflow contains cycles">> -> "cycle"
      [] OTHER -> "none"

\* C19: the four checks of validateWorkflow are independent: the error list
\* holds exactly one message for each check that fails (input count is not
\* one, no output node, a disconnected node, a cycle) and none for a check
\* that passes, and isValid holds exactly when no check fails.
C19_ValidationChecksAreIndependent ==
    \A c \in Calls : Validated(c) =>
        LET workflow == Val(call[c].workflow)
            r == Val(call[c].validation)
        IN /\ {CheckOf(r.errors[i]) : i \in 1..Len(r.errors)} = FailingChecks(workflow)
           /\ Len(r.errors) = Cardinality(FailingChecks(workflow))
           /\ r.isValid <=> FailingChecks(workflow) = {}
           /\ CountOfKind(workflow, "input") = 0 =>
                  r.errors[1] = <<"Workflow must have at least one input node">>
           /\ CountOfKind(workflow, "input") > 1 =>
                  r.errors[1] = <<"Workflow can only have one input node">>

\* reached: a workflow with two input nodes, no output node, an isolated
\* node and a cycle gets the four messages
C19_Witness ==
    \E c \in Calls :
        /\ Validated(c)
        /\ FailingChecks(Val(call[c].workflow)) = {"input", "output", "disconnected", "cycle"}
        /\ CountOfKind(Val(call[c].workflow), "input") = 2
        /\ Len(Val(call[c].validation).errors) = 4
        /\ ~Val(call[c].validation).isValid

\* C20: 'Workflow contains cycles' is reported exactly when some node of the
\* node list reaches a directed cycle of the edges, wherever the cycle lies
\* and in whatever order nodes and edges are listed.
C20_CyclesReportedExactly ==
    \A c \in Calls : Validated(c) =>
        LET workflow == Val(call[c].workflow)
            r == Val(call[c].validation)
        IN (\E i \in 1..Len(r.errors) : r.errors[i] = <<"Workflow contains cycles">>)
               <=> HasReachableCycle(workflow)

\* reached: the cycle n2 -> n3 -> n2 next to an input node that no edge
\* touches is reported
C20_Witness ==
    \E c \in Calls :
        /\ Validated(c)
        /\ Val(call[c].workflow).edges = <<Edge("n2", "n3"), Edge("n3", "n2")>>
        /\ Len(Val(call[c].workflow).nodes) = 3
        /\ Val(call[c].workflow).nodes[1].type = "input"
        /\ Isolated(Val(call[c].workflow)) = {1}
        /\ \E i \in 1..Len(Val(call[c].validation).errors) :
              Val(call[c].validation).errors[i] = <<"Workflow contains cycles">>

ListedIds(message) == [k \in 1..(Len(message) \div 2) |-> message[2 * k]]

DisconnectedMessages(errors) ==
    {i \in 1..Len(errors) : CheckOf(errors[i]) = "disconnected"}

\* C34: on a workflow of more than one node, the nodes that are neither
\* source nor target of any edge are reported in one message that lists
\* each of them once, in the order of the node list, and no other node; when
\* there is no such node, or the workflow has a single node, there is no
\* such message.
C34_DisconnectedNodesReportedExactly ==
    \A c \in Calls : Validated(c) =>
        LET workflow == Val(call[c].given)
            errors == Val(call[c].validation).errors
            untouched == {i \in 1..Len(workflow.nodes) :
                            \A e \in AllEdges(workflow) :
                                /\ e.source # workflow.nodes[i].id
                                /\ e.target # workflow.nodes[i].id}
        IN IF Len(workflow.nodes) > 1 /\ untouched # {}
           THEN /\ Cardinality(DisconnectedMessages(errors)) = 1
                /\ LET listed == ListedIds(errors[CHOOSE i \in DisconnectedMessages(errors) : TRUE])
                   IN /\ Len(listed) = Cardinality(untouched)
                      /\ {listed[k] : k \in 1..Len(listed)}
                            = {workflow.nodes[i].id : i \in untouched}
                      /\ \A a, b \in 1..Len(listed) :
                            a < b =>
                                \E i, j \in untouched :
                                    /\ i < j
                                    /\ workflow.nodes[i].id = listed[a]
                                    /\ workflow.nodes[j].id = listed[b]
           ELSE DisconnectedMessages(errors) = {}

\* reached: of three nodes only n1 is touched by an edge, and the message
\* lists n2 and n3
C34_Witness ==
    \E c \in Calls :
        /\ Validated(c)
        /\ Len(Val(call[c].given).nodes) = 3
        /\ Val(call[c].given).edges = <<Edge("n1", "n1")>>
        /\ \E i \in 1..Len(Val(call[c].validation).errors) :
              Val(call[c].validation).errors[i]
                  = <<"Disconnected nodes found: ", "n2", ", ", "n3">>

----------------------------------------------------------------------------
(* POST /api/workflow/execute                                              *)

MaxRouteEdges == 3   \* edges of a posted workflow

\* a route that runs whatever it is sent
AcceptsAll(validation) == TRUE

\* `if (!validation.isValid) return 400`
Accepts(validation) == validation.isValid

\* NextResponse.json(...): status, error text, details, success flag
Answer(status, error, details, success) ==
    [status |-> status, error |-> error, details |-> details,
     success |-> success]

\* POST up to its reply or, when the workflow is accepted, up to the first
\* suspension of executeWorkflow
Post(c, workflow, inputPrompt, providerConfigs) ==
    /\ call[c].pc = "idle"
    /\ IF ~IsSome(workflow) \/ ~Truthy(Some(inputPrompt)) \/ ~IsSome(providerConfigs)
       THEN /\ call' = [call EXCEPT ![c] =
                  [IdleCall EXCEPT
                      !.pc = "responded",
                      !.response = Some(Answer(400,
                          <<"Missing required fields: workflow, inputPrompt, providerConfigs">>,
                          None, FALSE))]]
            /\ UNCHANGED <<providers, maps>>
       ELSE IF "nodes" \notin DOMAIN Val(workflow)
       THEN /\ call' = [call EXCEPT ![c] =
                  [IdleCall EXCEPT
                      !.pc = "responded",
                      !.response = Some(Answer(500, <<"Internal server error">>,
                          Some(<<<<"Cannot read properties of undefined (reading 'filter')">>>>),
                          FALSE))]]
            /\ UNCHANGED <<providers, maps>>
       ELSE LET validation == validateWorkflow(Val(workflow))
            IN IF ~Accepts(validation)
               THEN /\ call' = [call EXCEPT ![c] =
                          [IdleCall EXCEPT
                              !.pc = "responded",
                              !.workflow = Some(WorkflowAfterValidate(Val(workflow))),
                              !.given = workflow,
                              !.validation = Some(validation),
                              !.response = Some(Answer(400, <<"Invalid workflow">>,
                                                       Some(validation.errors), FALSE))]]
                    /\ UNCHANGED <<providers, maps>>
               ELSE Start(c, WorkflowAfterValidate(Val(workflow)), inputPrompt,
                          Val(providerConfigs))

\* `return NextResponse.json({ success: ..., execution: ... })` once
\* executeWorkflow has returned its record
Reply(c) ==
    /\ call[c].pc = "returned"
    /\ call' = [call EXCEPT ![c].pc = "responded",
                            ![c].response =
                                Some(Answer(200, << >>, None,
                                            call[c].execution.status = "completed"))]
    /\ UNCHANGED <<providers, maps>>

\* the nodes of a posted workflow: one llm node or two between input and
\* output
RouteNodeLists ==
    {<<InputNode, LLM("llm-1", "openai", None), OutputNode>>,
     <<InputNode, LLM("llm-1", "openai", None),
       LLM("llm-2", "anthropic", Some(Ph(<<"llm-1">>))), OutputNode>>}

RouteEdges ==
    {Edge("input-1", "llm-1"), Edge("input-1", "llm-2"),
     Edge("llm-1", "llm-2"), Edge("llm-2", "llm-1"), Edge("llm-1", "llm-1"),
     Edge("llm-1", "output-1"), Edge("llm-2", "output-1"),
     Edge("output-1", "llm-1"), Edge("llm-1", "ghost")}

\* the posted `workflow` field: missing, an object without nodes, or a
\* workflow whose edges come in any order
RouteWorkflows ==
    {None, Some([id |-> "wf-posted"])}
    \cup {Some([id |-> "wf-posted", nodes |-> nodes, edges |-> edges]) :
             nodes \in RouteNodeLists,
             edges \in UNION {[1..k -> RouteEdges] : k \in 0..MaxRouteEdges}}

RouteInputs == {<<"hello">>, << >>}

RouteConfigs ==
    {None, Some(<<Config("openai", "key-A")>>),
     Some(<<Config("openai", "key-A"), Config("anthropic", "key-A")>>)}

PostAny ==
    /\ call[Caller].pc = "idle"
    /\ \E workflow \in RouteWorkflows, inputPrompt \in RouteInputs,
          providerConfigs \in RouteConfigs :
           Post(Caller, workflow, inputPrompt, providerConfigs)

\* the vendor answers with a text or fails
RespondRoute ==
    /\ call[Caller].pc = "awaitProvider"
    /\ \E response \in Responses(Val(call[Caller].provider),
                                 {<<"ECHO:">> \o Val(call[Caller].step).input},
                                 {0}) :
        ProviderResponds(Caller, response)

ReplyAny == Reply(Caller)

NextRoute == PostAny \/ RespondRoute \/ Resume \/ Finish \/ Debug \/ ReplyAny

SpecRoute == Init /\ [][NextRoute]_vars

\* C21: a posted workflow that validateWorkflow rejects is answered with
\* status 400 and the list of validation errors, and nothing else happens:
\* executeWorkflow is not invoked, the registry stays empty, and no provider
\* call and no step exist.
C21_RejectedWorkflowNeverExecutes ==
    \A c \in Calls :
        (/\ IsSome(call[c].given)
         /\ ~validateWorkflow(Val(call[c].given)).isValid) =>
            /\ call[c].pc = "responded"
            /\ Val(call[c].response).status = 400
            /\ Val(call[c].response).details
                   = Some(validateWorkflow(Val(call[c].given)).errors)
            /\ ~call[c].invoked
            /\ DOMAIN providers = {}
            /\ call[c].sent = << >>
            /\ call[c].steps = << >>

\* reached: a workflow whose llm node loops on itself was posted with an
\* input and an openai config, and was answered with the cycle error
C21_Witness ==
    /\ call[Caller].pc = "responded"
    /\ IsSome(call[Caller].given)
    /\ Len(Val(call[Caller].given).nodes) = 3
    /\ Val(call[Caller].given).edges
          = <<Edge("input-1", "llm-1"), Edge("llm-1", "llm-1"),
              Edge("llm-1", "output-1")>>
    /\ Val(call[Caller].response).status = 400
    /\ Val(call[Caller].response).details
          = Some(<<<<"Workflow contains cycles">>>>)
    /\ ~call[Caller].invoked

ResumeIsRun == []<>(call[Caller].pc # "awaitStep")

\* every provider call settles, and the engine runs whenever it can
SpecRouteFair ==
    /\ SpecRoute
    /\ WF_vars(RespondRoute)
    /\ ResumeIsRun
    /\ WF_vars(Finish)
    /\ WF_vars(Debug)

LLMNodeIds(workflow) ==
    {workflow.nodes[i].id : i \in {x \in 1..Len(workflow.nodes) :
                                      workflow.nodes[x].type = "llm"}}

\* the walk has gone through no node twice: every step belongs to an llm
\* node of the workflow, no two steps to the same one
StepsWithinNodes(c) ==
    /\ \A i \in 1..Len(call[c].steps) :
          call[c].steps[i].nodeId \in LLMNodeIds(Val(call[c].given))
    /\ \A i, j \in 1..Len(call[c].steps) :
          call[c].steps[i].nodeId = call[c].steps[j].nodeId => i = j
    /\ Len(call[c].steps) <= Cardinality(LLMNodeIds(Val(call[c].given)))

\* C29: for a workflow that validateWorkflow accepts, with provider calls
\* that all settle, executeWorkflow returns; at every moment of the
\* execution each llm node has at most one ExecutionStep, so the steps are
\* never more than the llm nodes of the workflow.
C29_AcceptedWorkflowTerminates ==
    /\ [](call[Caller].invoked => StepsWithinNodes(Caller))
    /\ call[Caller].invoked ~> call[Caller].pc \in {"returned", "responded"}

\* reached: an accepted workflow of two llm nodes was executed, both
\* provider calls settled, and executeWorkflow returned a record with one
\* step per llm node
C29_Witness ==
    /\ call[Caller].pc = "returned"
    /\ call[Caller].invoked
    /\ validateWorkflow(Val(call[Caller].given)).isValid
    /\ Cardinality(LLMNodeIds(Val(call[Caller].given))) = 2
    /\ Len(call[Caller].steps) = 2
    /\ Len(call[Caller].settled) = 2

----------------------------------------------------------------------------
(* ProviderFactory used on its own: registrations and lookups              *)

MaxRegistrations == 3   \* registerProvider calls made on the registry

RegistryTypes == {"openai", "anthropic", "google", "deepseek", "mistral"}
RegistryKeys == {"key-A", "key-B"}

\* providerFactory.registerProvider(type, config), the throw caught by the
\* caller
Register(c, type, config) ==
    /\ call[c].pc \in {"idle", "registry"}
    /\ Len(call[c].registrations) < MaxRegistrations
    /\ LET r == registerProvider(providers, type, config)
       IN /\ providers' = IF r.ok THEN r.reg ELSE providers
          /\ call' = [call EXCEPT ![c] =
                [@ EXCEPT !.pc = "registry",
                          !.registrations =
                              Append(@, [type |-> type, config |-> config,
                                         ok |-> r.ok,
                                         error |-> IF r.ok THEN << >>
                                                   ELSE r.error])]]
    /\ UNCHANGED maps

\* providerFactory.getProvider(type), the throw caught by the caller
Lookup(c, type) ==
    /\ call[c].pc \in {"idle", "registry"}
    /\ call' = [call EXCEPT ![c] =
          [@ EXCEPT !.pc = "registry",
                    !.lookup = Some([type |-> type,
                                     after |-> Len(call[c].registrations),
                                     result |-> getProvider(providers, type)])]]
    /\ UNCHANGED <<providers, maps>>

RegisterAny ==
    \E type \in RegistryTypes, key \in RegistryKeys :
        Register(Caller, type, [apiKey |-> key])

LookupAny == \E type \in RegistryTypes : Lookup(Caller, type)

NextRegistry == RegisterAny \/ LookupAny

SpecRegistry == Init /\ [][NextRegistry]_vars

\* the registrations of a log that did not throw, for one type
Succeeded(log, type) ==
    {i \in 1..Len(log) : log[i].type = type /\ log[i].ok}

\* the map a log of registrations stands for: each type with a registration
\* that did not throw, bound to the config of the latest one
MapOf(log) ==
    [type \in {t \in RegistryTypes : Succeeded(log, t) # {}} |->
        LET last == CHOOSE i \in Succeeded(log, type) :
                        \A j \in Succeeded(log, type) : j <= i
        IN [id |-> type, apiKey |-> log[last].config.apiKey]]

\* C26: the registry is the map of the registrations made so far: it holds
\* exactly the types with a registration that did not throw, each bound to
\* the instance built from the latest such registration; a registration
\* throws exactly for a type other than openai and anthropic and leaves the
\* registry as it was; getProvider returns the bound instance, and throws
\* the 'not registered' error exactly when the type has no binding.
C26_RegistryIsAMap ==
    LET log == call[Caller].registrations
    IN (call[Caller].pc \in {"idle", "registry"}) =>
          /\ providers = MapOf(log)
          /\ \A i \in 1..Len(log) :
                log[i].ok <=> log[i].type \in {"openai", "anthropic"}
          /\ IsSome(call[Caller].lookup) =>
                LET l == Val(call[Caller].lookup)
                    before == MapOf(SubSeq(log, 1, l.after))
                IN /\ l.result.ok <=> l.type \in DOMAIN before
                   /\ l.result.ok => l.result.provider = before[l.type]
                   /\ ~l.result.ok => l.result.error = NotRegistered(l.type)

\* reached: openai was registered twice with different keys, a registration
\* of google threw after that, and getProvider returned the instance of the
\* second openai registration
C26_Witness ==
    LET log == call[Caller].registrations
    IN /\ Len(log) = 3
       /\ log[1].type = "openai" /\ log[1].config.apiKey = "key-A"
       /\ log[2].type = "openai" /\ log[2].config.apiKey = "key-B"
       /\ log[3].type = "google" /\ ~log[3].ok
       /\ IsSome(call[Caller].lookup)
       /\ Val(call[Caller].lookup).type = "openai"
       /\ Val(call[Caller].lookup).after = 3
       /\ Val(call[Caller].lookup).result.ok
       /\ Val(call[Caller].lookup).result.provider.apiKey = "key-B"

====
